---- MODULE Spec2Model ----
(***************************************************************************)
(* A model of annex (src/annex/__init__.py): the Annex plugin registry,   *)
(* its construction, reload() and name lookup, together with the parts of *)
(* the host process it acts on: the watched directories of the file       *)
(* system and the interpreter's module table (sys.modules), in which      *)
(* imp.load_module keeps the namespace of every module it has loaded.     *)
(***************************************************************************)
EXTENDS Integers, Sequences, FiniteSets, TLC

(***************************************************************************)
(* Bounds of the model.                                                    *)
(***************************************************************************)
\* Passes (constructions and reloads) of one behaviour.
MaxPasses == 3
\* Files written or deleted in one behaviour, after its initial file system.
MaxChanges == 1

(***************************************************************************)
(* Paths.  A candidate file is dir/base.py; glob's "*.py" fixes the       *)
(* extension, so a path is the pair of its directory and its base name.   *)
(***************************************************************************)
Path(d, b) == [dir |-> d, base |-> b]

PA == Path("/p", "a")
PB == Path("/p", "b")
QA == Path("/q", "a")

\* The files the environment may create.
Paths == {PA, PB, QA}

\* The strings a caller may pass as plugin directories.
DirStrings == {"/p", "/p/", "/q"}

\* The plugin_dirs argument: a collection whose items are path strings or
\* collections again.
Str(s) == [k |-> "str", s |-> s]

List(items) == [k |-> "list", items |-> items]

\* One round of __init__'s loop over plugin_dirs: a string is added,
\* anything else is handed to set.update, which adds its items as they
\* are.  An item that is a collection itself ends the construction with
\* TypeError: a list is unhashable, and a tuple, once in the set, is
\* rejected by os.path.join before the first file is loaded.
FlattenItem(x) ==
  IF x.k = "str" THEN [dirs |-> {x.s}, raised |-> FALSE]
  ELSE [dirs |-> {x.items[i].s : i \in {j \in DOMAIN x.items : x.items[j].k = "str"}},
        raised |-> \E i \in DOMAIN x.items : x.items[i].k # "str"]

\* self.plugin_dirs after the loop over the argument.
Flatten(arg) ==
  [dirs |-> UNION {FlattenItem(arg.items[i]).dirs : i \in DOMAIN arg.items},
   raised |-> \E i \in DOMAIN arg.items : FlattenItem(arg.items[i]).raised]

\* os.path.abspath(os.path.join(plugin_dir, "*.py")) drops a trailing slash.
AbsDir(d) == IF d = "/p/" THEN "/p" ELSE d

\* path.startswith("/")
IsAbsolute(path) == path.dir \in {"/p", "/q"}

(***************************************************************************)
(* Python values that a plugin namespace binds.                           *)
(***************************************************************************)
BaseName == "Base"

\* Top-level names of a plugin module, in the order __dict__ enumerates them.
NameOrder == <<"Base", "Foo", "Bar", "Baz", "Alias">>

Names == {NameOrder[i] : i \in 1..Len(NameOrder)}

\* An unbound name, or a name bound to something that is not a class.
NoVal == [k |-> "none"]

\* A class object.  rel is its relation to base_plugin ("base" is the base
\* itself, "strict" a strict subclass); bad says that calling it with no
\* argument raises; stamp tells the execution that created it, so that two
\* executions of the same class statement give two objects.
ClassObj(n, rel, bad, stamp) ==
  [k |-> "class", name |-> n, rel |-> rel, bad |-> bad, stamp |-> stamp]

\* base_plugin, defined by the host program.
BaseCls == ClassObj(BaseName, "base", FALSE, <<0, 0>>)

\* obj(): a new instance of cls, made while scanning at stamp.
Instance(cls, bind, stamp) ==
  [k |-> "inst", cls |-> cls, bind |-> bind, stamp |-> stamp]

\* inspect.isclass(obj)
IsClass(v) == v.k = "class"

\* issubclass(obj, base_plugin): a class is a subclass of itself.
IsSubclass(v) == v.rel \in {"base", "strict"}

(***************************************************************************)
(* File contents.  A file is a series of top-level statements, one per    *)
(* name at most, optionally followed by a statement that raises:          *)
(*   "skip"     the name is not mentioned                                  *)
(*   "import"   from host import Base [as name]  /  name = Base            *)
(*   "class"    class name(Base): pass                                     *)
(*   "badinit"  class name(Base) whose __init__ raises                     *)
(*   "unset"    name = None                                                *)
(***************************************************************************)
Stmts(base, foo, bar, baz, alias) ==
  [n \in Names |->
     CASE n = "Base" -> base
       [] n = "Foo" -> foo
       [] n = "Bar" -> bar
       [] n = "Baz" -> baz
       [] OTHER -> alias]

Content(id, stmts, raises) == [id |-> id, stmts |-> stmts, raises |-> raises]

cFoo == Content("Foo", Stmts("import", "class", "skip", "skip", "skip"), FALSE)
cBarBaz == Content("BarBaz", Stmts("import", "skip", "class", "class", "skip"), FALSE)
cEmpty == Content("Empty", Stmts("import", "skip", "skip", "skip", "skip"), FALSE)
cRaise == Content("Raise", Stmts("import", "skip", "class", "skip", "skip"), TRUE)
cBadInit == Content("BadInit", Stmts("import", "badinit", "skip", "skip", "skip"), FALSE)
cUnset == Content("Unset", Stmts("import", "unset", "skip", "skip", "skip"), FALSE)
cAlias == Content("Alias", Stmts("import", "skip", "skip", "skip", "import"), FALSE)
cSubBase == Content("SubBase", Stmts("class", "skip", "skip", "skip", "skip"), FALSE)

Contents == {cFoo, cBarBaz, cEmpty, cRaise, cBadInit, cUnset, cAlias, cSubBase}

\* No file at that path.
Absent == Content("absent", Stmts("skip", "skip", "skip", "skip", "skip"), FALSE)

\* What the environment may write to a path.
Writable(p) ==
  CASE p = PA -> {cFoo, cBarBaz, cEmpty, cRaise, cBadInit, cUnset}
    [] p = PB -> {cFoo, cBarBaz}
    [] OTHER -> {cFoo, cEmpty, cBadInit, cRaise}

(***************************************************************************)
(* State.                                                                  *)
(***************************************************************************)
VARIABLES
  fs,                \* the file system: the id of the contents of every path
  python,            \* major version of the interpreter running the program
  scan_order,        \* the order in which plugin_dirs and a directory enumerate
  sys_modules,       \* the interpreter's module table: module name -> namespace
  epoch,             \* passes started so far; stamps the objects a pass creates
  constructed,       \* Annex.__init__ has returned an object
  instantiate,       \* self._instantiate
  raise_exceptions,  \* self._raise_exceptions
  plugin_dirs,       \* self.plugin_dirs
  loaded_modules,    \* self.loaded_modules: path -> PluginModule
  additional_plugins,\* self.additional_plugins
  op,                \* the last operation: "none", "write", "delete", "construct", "reload"
  result,            \* how the last pass ended: "ok", or the exception that left it
  failed,            \* the loads of the last pass that raised: <<path, where>>
  changes,           \* the number of files written or deleted so far
  changed,           \* the paths written or deleted since the last pass
  pre,               \* the state in which the last pass started (NoPre after a file change)
  lookup,            \* the last attribute lookup and its outcome (NoLookup otherwise)
  arg_dirs,          \* the plugin_dirs argument of the last construction
  callback_calls,    \* calls of additional_plugin_callback made for the registry
  loads,             \* the paths the last operation called _load_plugin with
  length             \* the last len(registry) (NoLength when none since the last change)

vars == <<fs, python, scan_order, sys_modules, epoch, constructed, instantiate,
          raise_exceptions, plugin_dirs, loaded_modules, additional_plugins,
          op, result, failed, changes, changed, pre, lookup,
          arg_dirs, callback_calls, loads, length>>

\* The contents of the file at path p, Absent when there is none (a path
\* outside the watched directories names no file).
File(p) ==
  IF p \in DOMAIN fs THEN CHOOSE c \in Contents \cup {Absent} : c.id = fs[p]
  ELSE Absent

(***************************************************************************)
(* Finite maps with a varying domain (Python dicts).                       *)
(***************************************************************************)
EmptyMap == [x \in {} |-> NoVal]

Put(f, k, v) == [x \in DOMAIN f \cup {k} |-> IF x = k THEN v ELSE f[x]]

Drop(f, ks) == [x \in DOMAIN f \ ks |-> f[x]]

Range(s) == {s[i] : i \in DOMAIN s}

(***************************************************************************)
(* _md5sum: the digest of a file's bytes.  Distinct contents of the model *)
(* have distinct digests.                                                  *)
(***************************************************************************)
Md5(c) == <<"md5", c.id>>

(***************************************************************************)
(* imp.load_module: executing a file's top-level code.                     *)
(***************************************************************************)
\* module_name = "annex_plugin_%s" % module_file
ModuleName(path) == <<"annex_plugin_", path.base>>

FreshNamespace == [n \in Names |-> NoVal]

\* One top-level statement binding name n; old is what n was bound to.
ExecStmt(kind, n, old, stamp) ==
  CASE kind = "skip" -> old
    [] kind = "import" -> BaseCls
    [] kind = "class" -> ClassObj(n, "strict", FALSE, stamp)
    [] kind = "badinit" -> ClassObj(n, "strict", TRUE, stamp)
    [] OTHER -> NoVal

\* The namespace after the statements of c have run in namespace ns.
Exec(c, ns, stamp) == [n \in Names |-> ExecStmt(c.stmts[n], n, ns[n], stamp)]

\* The namespace imp.load_module executes the file in: the one of the module
\* of that name when sys.modules has it (load_module is then a reload()), a
\* new one otherwise.
LoadNamespace(name, sm) == IF name \in DOMAIN sm THEN sm[name] ELSE FreshNamespace

\* sys.modules after the execution of module name raised and left namespace
\* ns: a first load is undone; a re-execution is undone by Python 2 and
\* keeps the module, with what was bound before the exception, in Python 3.
AfterFailedExec(name, sm, ns, py) ==
  IF name \in DOMAIN sm /\ py = 3 THEN Put(sm, name, ns) ELSE Drop(sm, {name})

\* Annex._import_plugin(path), c being the contents of the file at path.
\* status "none": returned None; "raised": an exception; "ok": the module.
ImportPlugin(path, c, sm, stamp, py) ==
  LET name == ModuleName(path)
      ns == Exec(c, LoadNamespace(name, sm), stamp)
  IN  IF ~IsAbsolute(path)
        THEN [status |-> "none", sm |-> sm, ns |-> FreshNamespace]
      ELSE IF c = Absent
        THEN [status |-> "raised", sm |-> sm, ns |-> FreshNamespace]
      ELSE IF c.raises
        THEN [status |-> "raised", sm |-> AfterFailedExec(name, sm, ns, py), ns |-> ns]
      ELSE [status |-> "ok", sm |-> Put(sm, name, ns), ns |-> ns]

(***************************************************************************)
(* Annex._load_plugin.                                                     *)
(***************************************************************************)
\* The condition under which a binding of the module yields a plugin.
Qualifies(n, v) == IsClass(v) /\ IsSubclass(v) /\ n # BaseName

\* The loop over plugin_module.__dict__.items(), from the i-th name on.
RECURSIVE ScanFrom(_, _, _, _)
ScanFrom(i, ns, inst, stamp) ==
  IF i > Len(NameOrder) THEN [plugins |-> <<>>, raised |-> FALSE]
  ELSE LET n == NameOrder[i]
           v == ns[n]
           rest == ScanFrom(i + 1, ns, inst, stamp)
       IN  IF ~Qualifies(n, v) THEN rest
           ELSE IF inst /\ v.bad THEN [plugins |-> <<>>, raised |-> TRUE]
           ELSE IF rest.raised THEN rest
           ELSE [plugins |-> <<IF inst THEN Instance(v, n, stamp) ELSE v>> \o rest.plugins,
                 raised |-> FALSE]

\* PluginModule(plugin_file, plugins): md5 is what _md5sum(plugin_file)
\* reads when the unit is made.  src is no attribute of the object: it
\* remembers the contents that were executed to find the plugins.
PluginModule(plugin_file, plugins, md5, src) ==
  [plugin_file |-> plugin_file, plugins |-> plugins, md5 |-> md5, src |-> src]

\* A write of contents c to path by another process, landing between the
\* execution of the file and the _md5sum of PluginModule.__init__.
Race(path, c) == [path |-> path, c |-> c]

NoRace == Race(Path("", ""), Absent)

\* The state a pass works on: lm is loaded_modules, sm is sys.modules,
\* deleted is reload's deleted_modules, exc the exception that ends the pass
\* ("none" while it runs), failed the loads that raised, loads the paths
\* _load_plugin was called with, race the write that interferes with it.
PassState(lm, sm, deleted) ==
  [lm |-> lm, sm |-> sm, deleted |-> deleted, exc |-> "none", failed |-> {},
   loads |-> {}, race |-> NoRace]

\* A faulty except clause that never re-raises; C8 must tell it from the
\* real one.
LoadFailed_Swallow(path, st, sm, where, strict) ==
  [st EXCEPT !.sm = sm, !.failed = @ \cup {<<path, where>>}]

\* A faulty except clause that re-raises whatever raise_exceptions is; C9
\* must tell it from the real one.
LoadFailed_AlwaysRaise(path, st, sm, where, strict) ==
  [st EXCEPT !.sm = sm, !.failed = @ \cup {<<path, where>>}, !.exc = "load"]

\* A faulty except clause that forgets the unit of the path whose load
\* failed; C16 must tell it from the real one.
LoadFailed_DropUnit(path, st, sm, where, strict) ==
  [st EXCEPT !.sm = sm,
             !.lm = Drop(@, {path}),
             !.failed = @ \cup {<<path, where>>},
             !.exc = IF strict THEN "load" ELSE @]

\* The except clause: the load of path raised in where.
LoadFailed(path, st, sm, where, strict) ==
  [st EXCEPT !.sm = sm,
             !.failed = @ \cup {<<path, where>>},
             !.exc = IF strict THEN "load" ELSE @]

LoadPlugin(path, st0, inst, strict, stamp) ==
  LET st == [st0 EXCEPT !.loads = @ \cup {path}]
      c == File(path)
      imp == ImportPlugin(path, c, st.sm, stamp, python)
      scan == ScanFrom(1, imp.ns, inst, stamp)
      \* the contents _md5sum reads, after the file was executed
      read == IF st.race.path = path THEN st.race.c ELSE c
  IN  CASE imp.status = "none" -> st
        [] imp.status = "raised" -> LoadFailed(path, st, imp.sm, "import", strict)
        [] imp.status = "ok" /\ scan.raised -> LoadFailed(path, st, imp.sm, "init", strict)
        [] imp.status = "ok" /\ ~scan.raised /\ scan.plugins = <<>> ->
             [st EXCEPT !.sm = imp.sm]
        [] OTHER ->
             [st EXCEPT !.sm = imp.sm,
                        !.lm = Put(@, path,
                                   PluginModule(path, scan.plugins, Md5(read), c.id))]

(***************************************************************************)
(* Annex._get_plugin_files.                                                *)
(***************************************************************************)
\* glob.glob(d + "/*.py"): the files of directory d, in listing order.
RECURSIVE Glob(_, _)
Glob(d, bases) ==
  IF bases = <<>> THEN <<>>
  ELSE LET f == Path(d, Head(bases))
       IN  (IF f \in Paths /\ File(f) # Absent THEN <<f>> ELSE <<>>) \o Glob(d, Tail(bases))

RECURSIVE FilesOf(_, _)
FilesOf(dirs, order) ==
  IF order = <<>> THEN <<>>
  ELSE (IF Head(order) \in dirs THEN Glob(AbsDir(Head(order)), scan_order.bases) ELSE <<>>)
       \o FilesOf(dirs, Tail(order))

GetPluginFiles(dirs) == FilesOf(dirs, scan_order.dirs)

(***************************************************************************)
(* The passes over the candidate files.                                    *)
(***************************************************************************)
\* Annex.__init__: for plugin_file in files: self._load_plugin(plugin_file).
\* An exception leaving _load_plugin ends the loop.
RECURSIVE ConstructLoop(_, _, _, _, _, _)
ConstructLoop(files, i, st, inst, strict, ep) ==
  IF i > Len(files) \/ st.exc # "none" THEN st
  ELSE ConstructLoop(files, i + 1, LoadPlugin(files[i], st, inst, strict, <<ep, i>>),
                     inst, strict, ep)

\* deleted_modules.remove(plugin_file): KeyError when it is not in the set.
Remove(st, f) ==
  IF f \in st.deleted THEN [st EXCEPT !.deleted = @ \ {f}]
  ELSE [st EXCEPT !.exc = "KeyError"]

\* A faulty iteration that loads every file that has a unit again, whatever
\* its md5; C17 must tell it from the real one.
ReloadStep_Eager(f, st, inst, strict, stamp) ==
  IF f \notin DOMAIN st.lm THEN LoadPlugin(f, st, inst, strict, stamp)
  ELSE LET st1 == Remove(st, f)
       IN  IF st1.exc # "none" THEN st1 ELSE LoadPlugin(f, st1, inst, strict, stamp)

\* One iteration of reload's first loop.
ReloadStep(f, st, inst, strict, stamp) ==
  IF f \notin DOMAIN st.lm THEN LoadPlugin(f, st, inst, strict, stamp)
  ELSE IF Md5(File(f)) # st.lm[f].md5
    THEN LET st1 == Remove(st, f)
         IN  IF st1.exc # "none" THEN st1 ELSE LoadPlugin(f, st1, inst, strict, stamp)
  ELSE Remove(st, f)

RECURSIVE ReloadLoop(_, _, _, _, _, _)
ReloadLoop(files, i, st, inst, strict, ep) ==
  IF i > Len(files) \/ st.exc # "none" THEN st
  ELSE ReloadLoop(files, i + 1, ReloadStep(files[i], st, inst, strict, <<ep, i>>),
                  inst, strict, ep)

\* A faulty second loop that deletes nothing; C19 must tell it from the
\* real one.
DeleteLoop_Keep(st) == st

\* reload's second loop: del self.loaded_modules[plugin_file] for the paths
\* left in deleted_modules.  It is not reached when the first loop raised.
DeleteLoop(st) == IF st.exc # "none" THEN st ELSE [st EXCEPT !.lm = Drop(@, st.deleted)]

(***************************************************************************)
(* additional_plugin_callback: classes defined by the host program.       *)
(***************************************************************************)
ExtraFoo == ClassObj("Foo", "strict", FALSE, <<0, 1>>)
ExtraBad == ClassObj("Bar", "strict", TRUE, <<0, 2>>)

\* What the callback returns; <<>> also stands for no callback at all.
CallbackResults == {<<>>, <<ExtraFoo>>, <<ExtraBad>>, <<ExtraBad, ExtraFoo>>}

\* __init__'s loop over additional_plugins.
AdditionalPlugins(classes, inst, ep) ==
  IF inst /\ \E i \in DOMAIN classes : classes[i].bad
    THEN [plugins |-> <<>>, raised |-> TRUE]
  ELSE [plugins |-> [i \in DOMAIN classes |->
                       IF inst THEN Instance(classes[i], "callback", <<ep, 0>>)
                       ELSE classes[i]],
        raised |-> FALSE]

(***************************************************************************)
(* Iteration and name lookup.                                              *)
(***************************************************************************)
\* All orders in which a dict may enumerate the keys in S.
Orders(S) == {s \in [1..Cardinality(S) -> S] : Range(s) = S}

RECURSIVE UnitMembers(_, _)
UnitMembers(lm, keys) ==
  IF keys = <<>> THEN <<>> ELSE lm[Head(keys)].plugins \o UnitMembers(lm, Tail(keys))

\* Annex.__iter__, keys being the order of loaded_modules.values().
Iter(lm, keys, additional) == UnitMembers(lm, keys) \o additional

\* The objects iteration yields.
Members(lm, additional) ==
  UNION {Range(lm[f].plugins) : f \in DOMAIN lm} \cup Range(additional)

\* obj_name in __getattr__.
ObjName(plugin, inst) == IF inst THEN plugin.cls.name ELSE plugin.name

NotFound == [k |-> "AttributeError"]

\* Annex.__getattr__(name) over the iteration sequence seq, from index i.
RECURSIVE GetAttrFrom(_, _, _, _)
GetAttrFrom(seq, i, name, inst) ==
  IF i > Len(seq) THEN NotFound
  ELSE IF ObjName(seq[i], inst) = name THEN seq[i]
  ELSE GetAttrFrom(seq, i + 1, name, inst)

\* A faulty lookup that keeps scanning after a match and returns the last
\* one; C10 must tell it from the real one.
GetAttrOf_Last(seq, name, inst) ==
  LET hits == {i \in DOMAIN seq : ObjName(seq[i], inst) = name}
  IN  IF hits = {} THEN NotFound
      ELSE seq[CHOOSE i \in hits : \A j \in hits : j <= i]

GetAttrOf(seq, name, inst) == GetAttrFrom(seq, 1, name, inst)

(***************************************************************************)
(* Initial state: a host process that has not built its registry yet.     *)
(***************************************************************************)
ScanOrders == {[dirs |-> <<"/p", "/p/", "/q">>, bases |-> <<"a", "b">>],
               [dirs |-> <<"/q", "/p/", "/p">>, bases |-> <<"b", "a">>]}

\* The plugin_dirs argument: two watched directories.
WatchedDirs == List(<<Str("/p"), Str("/q")>>)

NoPre == [lm |-> EmptyMap, op |-> "none", result |-> "ok", changed |-> {}]
NoLookup == [name |-> "", seq |-> <<>>, value |-> NoVal]
NoLength == -1

Init ==
  /\ fs \in {f \in [Paths -> {c.id : c \in Contents \cup {Absent}}] :
                \A p \in Paths : f[p] \in {c.id : c \in Writable(p) \cup {Absent}}}
  /\ changes = 0
  /\ python \in {2, 3}
  /\ scan_order \in ScanOrders
  /\ sys_modules = EmptyMap
  /\ epoch = 0
  /\ constructed = FALSE
  /\ instantiate = TRUE
  /\ raise_exceptions = FALSE
  /\ plugin_dirs = {}
  /\ loaded_modules = EmptyMap
  /\ additional_plugins = <<>>
  /\ op = "none"
  /\ result = "ok"
  /\ failed = {}
  /\ changed = {}
  /\ pre = NoPre
  /\ lookup = NoLookup
  /\ arg_dirs = List(<<>>)
  /\ callback_calls = 0
  /\ loads = {}
  /\ length = NoLength

(***************************************************************************)
(* The environment: files are created, overwritten and deleted between    *)
(* the calls into the registry.                                            *)
(***************************************************************************)
WriteFile(p, c) ==
  /\ changes < MaxChanges
  /\ c # File(p)
  /\ changes' = changes + 1
  /\ fs' = [fs EXCEPT ![p] = c.id]
  /\ changed' = changed \cup {p}
  /\ op' = "write"
  /\ pre' = NoPre
  /\ lookup' = NoLookup
  /\ length' = NoLength
  /\ UNCHANGED <<python, scan_order, sys_modules, epoch, constructed, instantiate,
                 raise_exceptions, plugin_dirs, loaded_modules, additional_plugins,
                 result, failed, arg_dirs, callback_calls, loads>>

DeleteFile(p) ==
  /\ changes < MaxChanges
  /\ File(p) # Absent
  /\ changes' = changes + 1
  /\ fs' = [fs EXCEPT ![p] = Absent.id]
  /\ changed' = changed \cup {p}
  /\ op' = "delete"
  /\ pre' = NoPre
  /\ lookup' = NoLookup
  /\ length' = NoLength
  /\ UNCHANGED <<python, scan_order, sys_modules, epoch, constructed, instantiate,
                 raise_exceptions, plugin_dirs, loaded_modules, additional_plugins,
                 result, failed, arg_dirs, callback_calls, loads>>

(***************************************************************************)
(* Annex(base_plugin, plugin_dirs, instantiate, raise_exceptions,         *)
(*       additional_plugin_callback)                                       *)
(***************************************************************************)
Construct(arg, inst, strict, classes, race) ==
  /\ ~constructed
  /\ epoch < MaxPasses
  /\ race # NoRace => (changes < MaxChanges /\ race.c # File(race.path))
  /\ LET ep == epoch + 1
         flat == Flatten(arg)
         st0 == [PassState(EmptyMap, sys_modules, {}) EXCEPT !.race = race]
         st == IF flat.raised THEN [st0 EXCEPT !.exc = "TypeError"]
               ELSE ConstructLoop(GetPluginFiles(flat.dirs), 1, st0, inst, strict, ep)
         \* if additional_plugin_callback: ... (<<>> is no callback)
         called == st.exc = "none" /\ classes # <<>>
         extra == AdditionalPlugins(classes, inst, ep)
         res == IF st.exc # "none" THEN st.exc
                ELSE IF extra.raised THEN "callback" ELSE "ok"
     IN  /\ race # NoRace => race.path \in st.loads
         /\ epoch' = ep
         /\ sys_modules' = st.sm
         /\ result' = res
         /\ failed' = st.failed
         /\ loads' = st.loads
         /\ constructed' = (res = "ok")
         /\ instantiate' = inst
         /\ raise_exceptions' = strict
         /\ plugin_dirs' = IF flat.raised THEN {} ELSE flat.dirs
         /\ loaded_modules' = IF res = "ok" THEN st.lm ELSE EmptyMap
         /\ additional_plugins' = IF res = "ok" THEN extra.plugins ELSE <<>>
         /\ callback_calls' = IF called THEN 1 ELSE 0
  /\ arg_dirs' = arg
  /\ op' = "construct"
  /\ pre' = [lm |-> loaded_modules, op |-> op, result |-> result, changed |-> changed]
  /\ fs' = IF race = NoRace THEN fs ELSE [fs EXCEPT ![race.path] = race.c.id]
  /\ changes' = IF race = NoRace THEN changes ELSE changes + 1
  /\ changed' = IF race = NoRace THEN {} ELSE {race.path}
  /\ lookup' = NoLookup
  /\ length' = NoLength
  /\ UNCHANGED <<python, scan_order>>

(***************************************************************************)
(* Annex.reload()                                                          *)
(***************************************************************************)
\* A faulty reload() that invokes additional_plugin_callback again; C12 must
\* tell it from the real one.
ReloadDuring_CallsBack(race) ==
  /\ constructed
  /\ epoch < MaxPasses
  /\ race # NoRace => (changes < MaxChanges /\ race.c # File(race.path))
  /\ LET ep == epoch + 1
         st0 == [PassState(loaded_modules, sys_modules, DOMAIN loaded_modules)
                   EXCEPT !.race = race]
         st == DeleteLoop(ReloadLoop(GetPluginFiles(plugin_dirs), 1, st0,
                                     instantiate, raise_exceptions, ep))
     IN  /\ race # NoRace => race.path \in st.loads
         /\ epoch' = ep
         /\ sys_modules' = st.sm
         /\ loaded_modules' = st.lm
         /\ result' = IF st.exc = "none" THEN "ok" ELSE st.exc
         /\ failed' = st.failed
         /\ loads' = st.loads
  /\ op' = "reload"
  /\ pre' = [lm |-> loaded_modules, op |-> op, result |-> result, changed |-> changed]
  /\ fs' = IF race = NoRace THEN fs ELSE [fs EXCEPT ![race.path] = race.c.id]
  /\ changes' = IF race = NoRace THEN changes ELSE changes + 1
  /\ changed' = IF race = NoRace THEN {} ELSE {race.path}
  /\ lookup' = NoLookup
  /\ length' = NoLength
  /\ callback_calls' = callback_calls + 1
  /\ UNCHANGED <<python, scan_order, constructed, instantiate, raise_exceptions,
                 plugin_dirs, additional_plugins, arg_dirs>>

ReloadDuring(race) ==
  /\ constructed
  /\ epoch < MaxPasses
  /\ race # NoRace => (changes < MaxChanges /\ race.c # File(race.path))
  /\ LET ep == epoch + 1
         st0 == [PassState(loaded_modules, sys_modules, DOMAIN loaded_modules)
                   EXCEPT !.race = race]
         st == DeleteLoop(ReloadLoop(GetPluginFiles(plugin_dirs), 1, st0,
                                     instantiate, raise_exceptions, ep))
     IN  /\ race # NoRace => race.path \in st.loads
         /\ epoch' = ep
         /\ sys_modules' = st.sm
         /\ loaded_modules' = st.lm
         /\ result' = IF st.exc = "none" THEN "ok" ELSE st.exc
         /\ failed' = st.failed
         /\ loads' = st.loads
  /\ op' = "reload"
  /\ pre' = [lm |-> loaded_modules, op |-> op, result |-> result, changed |-> changed]
  /\ fs' = IF race = NoRace THEN fs ELSE [fs EXCEPT ![race.path] = race.c.id]
  /\ changes' = IF race = NoRace THEN changes ELSE changes + 1
  /\ changed' = IF race = NoRace THEN {} ELSE {race.path}
  /\ lookup' = NoLookup
  /\ length' = NoLength
  /\ UNCHANGED <<python, scan_order, constructed, instantiate, raise_exceptions,
                 plugin_dirs, additional_plugins, arg_dirs, callback_calls>>

\* reload() while no other process writes to the watched directories.
Reload == ReloadDuring(NoRace)

(***************************************************************************)
(* Attribute lookup on the registry: Annex.__getattr__(name).             *)
(***************************************************************************)
GetAttr(name, keys) ==
  /\ constructed
  /\ op \in {"construct", "reload"}
  /\ lookup = NoLookup
  /\ LET seq == Iter(loaded_modules, keys, additional_plugins)
     IN  lookup' = [name |-> name, seq |-> seq,
                    value |-> GetAttrOf(seq, name, instantiate)]
  /\ UNCHANGED <<fs, python, scan_order, sys_modules, epoch, constructed, instantiate,
                 raise_exceptions, plugin_dirs, loaded_modules, additional_plugins,
                 op, result, failed, changes, changed, pre,
                 arg_dirs, callback_calls, loads, length>>

(***************************************************************************)
(* Spec: a registry over two watched directories, built without callback, *)
(* in either mode, and the files of the directories changing under it.    *)
(***************************************************************************)
Write == \E p \in Paths : \E c \in Writable(p) : WriteFile(p, c)

Delete == \E p \in Paths : DeleteFile(p)

Build == \E inst \in BOOLEAN : \E strict \in BOOLEAN :
           Construct(WatchedDirs, inst, strict, <<>>, NoRace)

Next == Write \/ Delete \/ Build \/ Reload

Spec == Init /\ [][Next]_vars

(***************************************************************************)
(* SpecLookup: registries built with an additional_plugin_callback over   *)
(* files that load, and attribute lookups on them.                         *)
(***************************************************************************)
LookupFiles ==
  {f \in [Paths -> {c.id : c \in Contents \cup {Absent}}] :
     /\ f[PA] \in {cFoo.id, cBarBaz.id}
     /\ f[PB] \in {cFoo.id, Absent.id}
     /\ f[QA] \in {cFoo.id, Absent.id}}

InitLookup == Init /\ fs \in LookupFiles

BuildWithCallback ==
  \E inst \in BOOLEAN : \E classes \in CallbackResults :
    Construct(WatchedDirs, inst, FALSE, classes, NoRace)

Lookup ==
  \E name \in Names : \E keys \in Orders(DOMAIN loaded_modules) : GetAttr(name, keys)

NextLookup == Write \/ Delete \/ BuildWithCallback \/ Reload \/ Lookup

SpecLookup == InitLookup /\ [][NextLookup]_vars

(***************************************************************************)
(* Vocabulary of the properties.                                           *)
(***************************************************************************)
\* The last operation was a pass over the candidate files.
AfterPass == op \in {"construct", "reload"}

\* The candidate files of the last pass (the files have not changed since).
Candidates == Range(GetPluginFiles(plugin_dirs))

\* The names a file's own statements bind to strict subclasses of the base.
Defined(c) == {n \in Names : c.stmts[n] \in {"class", "badinit"}}

\* The type names of the members of a unit.
UnitNames(u) == {ObjName(u.plugins[i], instantiate) : i \in DOMAIN u.plugins}

\* Path f had a unit when the last pass started, and the file has been
\* overwritten since with contents other than the ones loaded.
Edited(f) ==
  /\ f \in DOMAIN pre.lm
  /\ f \in pre.changed
  /\ File(f) # Absent
  /\ Md5(File(f)) # pre.lm[f].md5

\* (C1) After a reload() that returned, every edited path has a unit made
\* of a fresh scan of its new contents (none when they define no plugin),
\* and iteration yields none of the members the path had before the edit.
C1_EditReplacesUnit ==
  (op = "reload" /\ result = "ok") =>
    \A f \in Paths :
      Edited(f) =>
        /\ IF Defined(File(f)) = {} THEN f \notin DOMAIN loaded_modules
           ELSE /\ f \in DOMAIN loaded_modules
                /\ UnitNames(loaded_modules[f]) = Defined(File(f))
        /\ Range(pre.lm[f].plugins) \cap Members(loaded_modules, additional_plugins) = {}

\* f has just been loaded again without failure.
Reloaded(f) == Edited(f) /\ \A w \in {"import", "init"} : <<f, w>> \notin failed

\* (C2) After a reload() that loaded an edited path again, the members of
\* its unit are exactly the strict subtypes its current contents define:
\* what an earlier version of the file defined contributes no member.
C2_ReloadIsFirstLoad ==
  (op = "reload" /\ result = "ok") =>
    \A f \in Paths :
      (Reloaded(f) /\ Defined(File(f)) # {}) =>
        /\ f \in DOMAIN loaded_modules
        /\ UnitNames(loaded_modules[f]) = Defined(File(f))

\* A file whose top-level code runs to its end and whose classes can be
\* constructed without argument.
WellBehaved(c) == ~c.raises /\ \A n \in Names : c.stmts[n] # "badinit"

RECURSIVE CountMembers(_, _)
CountMembers(lm, S) ==
  IF S = {} THEN 0
  ELSE LET f == CHOOSE x \in S : TRUE
       IN  Len(lm[f].plugins) + CountMembers(lm, S \ {f})

\* (C3) After construction the members of every unit come from the types
\* its own file defines; hence N candidate files that each define exactly
\* one subtype give N units and N members.
C3_LoadsIsolated ==
  (op = "construct" /\ result = "ok") =>
    /\ \A f \in DOMAIN loaded_modules :
         UnitNames(loaded_modules[f]) \subseteq Defined(File(f))
    /\ (\A f \in Candidates :
          WellBehaved(File(f)) /\ Cardinality(Defined(File(f))) = 1) =>
         /\ Cardinality(DOMAIN loaded_modules) = Cardinality(Candidates)
         /\ CountMembers(loaded_modules, DOMAIN loaded_modules) = Cardinality(Candidates)

\* (C4) After a pass that returned, a candidate file whose current contents
\* define no strict subtype of the base has no unit.
C4_NoUnitWithoutPlugin ==
  (AfterPass /\ result = "ok") =>
    \A f \in Candidates : Defined(File(f)) = {} => f \notin DOMAIN loaded_modules

\* (C5) After a reload() that returned, when the only file change since the
\* pass before is the deletion of a file that had a unit: the path is no
\* key, iteration yields none of its members, len() is one less and every
\* other unit is what it was.
C5_DeleteRemovesUnit ==
  (op = "reload" /\ result = "ok") =>
    \A f \in DOMAIN pre.lm :
      (pre.changed = {f} /\ File(f) = Absent) =>
        /\ f \notin DOMAIN loaded_modules
        /\ Range(pre.lm[f].plugins) \cap Members(loaded_modules, additional_plugins) = {}
        /\ Cardinality(DOMAIN loaded_modules) = Cardinality(DOMAIN pre.lm) - 1
        /\ \A g \in DOMAIN pre.lm \ {f} :
             g \in DOMAIN loaded_modules /\ loaded_modules[g] = pre.lm[g]

\* (C6) A reload() that returns right after a reload() that returned, no
\* file having changed in between, leaves the units - keys, fingerprints
\* and member objects - as the first one left them.
C6_ReloadIdempotent ==
  (op = "reload" /\ result = "ok" /\ pre.op = "reload" /\ pre.result = "ok") =>
    loaded_modules = pre.lm

\* (C7) With raise_exceptions false a pass returns normally, every
\* well-behaved candidate that defines a strict subtype has a unit, and no
\* unit is left for a path that is not a candidate.
C7_FailuresIsolated ==
  (AfterPass /\ ~raise_exceptions) =>
    /\ result = "ok"
    /\ \A f \in Candidates :
         (WellBehaved(File(f)) /\ Defined(File(f)) # {}) => f \in DOMAIN loaded_modules
    /\ DOMAIN loaded_modules \subseteq Candidates

\* (C8) With raise_exceptions true, a pass over candidates of which one
\* raises while it is imported ends with that exception raised to the caller.
C8_StrictRaises ==
  (AfterPass /\ raise_exceptions /\ \E f \in Candidates : File(f).raises) =>
    result = "load"

\* C8's case: a strict reload() left by the exception of a failing import.
C8_Witness ==
  /\ op = "reload"
  /\ raise_exceptions
  /\ result = "load"
  /\ \E f \in Candidates : File(f).raises /\ <<f, "import">> \in failed

\* The last pass met a capability whose construction raised.
InitFailed(f) == <<f, "init">> \in failed

\* (C9, as stated) When the construction of a capability found in a plugin
\* file raises, the exception reaches the caller of the pass, whatever
\* raise_exceptions is.
C9_InitFailurePropagates ==
  (AfterPass /\ instantiate /\ \E f \in Paths : InitFailed(f)) => result = "load"

\* (C9, amended) The exception of a capability's construction is handled
\* as a load failure of its file: it reaches the caller exactly when
\* raise_exceptions is true; otherwise the path keeps the unit it had, or none.
C9_InitFailureIsLoadFailure ==
  AfterPass =>
    \A f \in Paths :
      InitFailed(f) =>
        /\ (result = "load") <=> raise_exceptions
        /\ ~raise_exceptions =>
             /\ (f \in DOMAIN loaded_modules) <=> (f \in DOMAIN pre.lm)
             /\ f \in DOMAIN loaded_modules => loaded_modules[f] = pre.lm[f]

\* C9's case: a reload() with raise_exceptions false returned although the
\* construction of a capability of an edited file raised.
C9_Witness ==
  /\ op = "reload"
  /\ ~raise_exceptions
  /\ result = "ok"
  /\ \E f \in DOMAIN loaded_modules : InitFailed(f)

\* The name of the type of a member: the class of an instance, or the
\* member itself when it is a class.
TypeName(m) == IF m.k = "inst" THEN m.cls.name ELSE m.name

\* The positions of seq whose member's type is called name.
Matches(seq, name) == {i \in DOMAIN seq : TypeName(seq[i]) = name}

\* (C10) An attribute lookup runs over the members of the units followed
\* by the additional members; it returns the first member of that sequence
\* whose type is called name, and fails with AttributeError exactly when
\* the sequence has no such member.
C10_LookupFirstMatch ==
  lookup # NoLookup =>
    /\ \E keys \in Orders(DOMAIN loaded_modules) :
         lookup.seq = UnitMembers(loaded_modules, keys) \o additional_plugins
    /\ LET hits == Matches(lookup.seq, lookup.name)
       IN  IF hits = {} THEN lookup.value = NotFound
           ELSE /\ lookup.value # NotFound
                /\ \E i \in hits : /\ \A j \in hits : i <= j
                                   /\ lookup.value = lookup.seq[i]

\* C10's case: the name is the type name of a member of a unit, of a
\* member of another unit and of an additional member, and the lookup
\* returned the first of them.
C10_Witness ==
  /\ lookup # NoLookup
  /\ Cardinality(Matches(lookup.seq, lookup.name)) >= 3
  /\ \E i \in DOMAIN additional_plugins : TypeName(additional_plugins[i]) = lookup.name
  /\ lookup.value = lookup.seq[1]
  /\ lookup.value # lookup.seq[Len(lookup.seq)]

(***************************************************************************)
(* len(registry): Annex.__len__.                                           *)
(***************************************************************************)
\* A faulty __len__ that counts the members of the units; C11 must tell it
\* from the real one.
AnnexLen_Members(lm) == CountMembers(lm, DOMAIN lm)

\* len(self.loaded_modules)
AnnexLen(lm) == Cardinality(DOMAIN lm)

Length ==
  /\ constructed
  /\ AfterPass
  /\ length = NoLength
  /\ length' = AnnexLen(loaded_modules)
  /\ UNCHANGED <<fs, python, scan_order, sys_modules, epoch, constructed, instantiate,
                 raise_exceptions, plugin_dirs, loaded_modules, additional_plugins,
                 op, result, failed, changes, changed, pre, lookup,
                 arg_dirs, callback_calls, loads>>

(***************************************************************************)
(* SpecLen: registries built with an additional_plugin_callback, the      *)
(* files changing under them, and len() taken after every pass.           *)
(***************************************************************************)
NextLen == Write \/ Delete \/ BuildWithCallback \/ Reload \/ Length

SpecLen == InitLookup /\ [][NextLen]_vars

\* The paths that have a unit.
Units == {f \in Paths : f \in DOMAIN loaded_modules}

\* (C11) len(registry) is the number of loaded units, the keys of
\* loaded_modules: a unit counts once however many members it has, and the
\* additional members are not counted.
C11_LenCountsUnits ==
  length # NoLength => length = Cardinality(Units)

\* C11's case: len() of a registry with one unit of two members and an
\* additional member.
C11_Witness ==
  /\ length = 1
  /\ \E f \in Units : Len(loaded_modules[f].plugins) = 2
  /\ additional_plugins # <<>>

\* (C12) additional_plugin_callback is invoked once, by the construction,
\* and never again: no step taken on a constructed registry - a reload()
\* after whatever file change in particular - changes additional_plugins
\* (objects and order) or invokes the callback.
C12_CallbackOnce ==
  /\ [](constructed => /\ callback_calls <= 1
                        /\ additional_plugins # <<>> => callback_calls = 1)
  /\ [][constructed => /\ additional_plugins' = additional_plugins
                        /\ callback_calls' = callback_calls]_vars

\* C12's case: a registry with additional members after two reload()s and
\* a file change.
C12_Witness ==
  /\ op = "reload"
  /\ epoch = 3
  /\ changes = 1
  /\ additional_plugins # <<>>
  /\ callback_calls = 1

(***************************************************************************)
(* SpecDirs: registries built from plugin_dirs arguments of several       *)
(* shapes - flat, naming one directory twice, nested - and reloaded.      *)
(***************************************************************************)
\* ["/p", "/p/"]
ArgSame == List(<<Str("/p"), Str("/p/")>>)
\* ["/p", ["/q"]]
ArgNested == List(<<Str("/p"), List(<<Str("/q")>>)>>)
\* [["/p", "/q"]]
ArgInner == List(<<List(<<Str("/p"), Str("/q")>>)>>)
\* [["/p", ["/q"]]]
ArgDeep == List(<<List(<<Str("/p"), List(<<Str("/q")>>)>>)>>)

DirArgs == {WatchedDirs, ArgSame, ArgNested, ArgInner, ArgDeep}

BuildFrom ==
  \E arg \in DirArgs : \E inst \in BOOLEAN :
    Construct(arg, inst, FALSE, <<>>, NoRace)

NextDirs == Write \/ Delete \/ BuildFrom \/ Reload

SpecDirs == InitLookup /\ [][NextDirs]_vars

\* (C13) The candidate files of a pass hold every file once, also when two
\* strings of plugin_dirs name the same directory, and reload() does not
\* raise because of such directories.
C13_CandidatesOnce ==
  constructed =>
    /\ LET files == GetPluginFiles(plugin_dirs)
       IN  \A i, j \in DOMAIN files : files[i] = files[j] => i = j
    /\ op = "reload" => result # "KeyError"

\* The string leaves of a plugin_dirs argument.
RECURSIVE Leaves(_)
Leaves(x) ==
  IF x.k = "str" THEN {x.s} ELSE UNION {Leaves(x.items[i]) : i \in DOMAIN x.items}

\* (C14) Construction flattens its plugin_dirs argument recursively: it
\* does not fail because of the depth of the nesting, and plugin_dirs is
\* the set of the string leaves of the argument.
C14_FlattenRecursive ==
  op = "construct" =>
    /\ result # "TypeError"
    /\ constructed => plugin_dirs = Leaves(arg_dirs)

(***************************************************************************)
(* SpecFilter: plugin files that bind the base type under another name,   *)
(* or a strict subtype under the base's name.                              *)
(***************************************************************************)
WriteFilter == \E p \in Paths : \E c \in {cAlias, cSubBase} : WriteFile(p, c)

NextFilter == WriteFilter \/ Delete \/ Build \/ Reload

SpecFilter == InitLookup /\ [][NextFilter]_vars

\* The type of a member: the class of an instance, or the member itself.
Cls(m) == IF m.k = "inst" THEN m.cls ELSE m

\* (C15) The scan of a loaded namespace leaves out the base type by
\* identity, not by name: after a pass that returned, no member of a unit
\* is, or is an instance of, the base type itself, and a file that binds a
\* strict subtype to the base's name has a unit with that subtype.
C15_FilterByIdentity ==
  (AfterPass /\ result = "ok") =>
    /\ \A f \in DOMAIN loaded_modules :
         \A i \in DOMAIN loaded_modules[f].plugins :
           Cls(loaded_modules[f].plugins[i]) # BaseCls
    /\ \A f \in Candidates \cap loads :
         BaseName \in Defined(File(f)) =>
           /\ f \in DOMAIN loaded_modules
           /\ \E i \in DOMAIN loaded_modules[f].plugins :
                LET cls == Cls(loaded_modules[f].plugins[i])
                IN  cls.name = BaseName /\ cls.rel = "strict"

(***************************************************************************)
(* SpecLoad: _load_plugin called on its own, with the paths of the        *)
(* watched directories and with a path that is not absolute.              *)
(***************************************************************************)
\* "p/a.py"
RelA == Path("p", "a")

\* registry._load_plugin(path)
CallLoadPlugin(path) ==
  /\ constructed
  /\ epoch < MaxPasses
  /\ LET ep == epoch + 1
         st == LoadPlugin(path, PassState(loaded_modules, sys_modules, {}),
                          instantiate, raise_exceptions, <<ep, 1>>)
     IN  /\ epoch' = ep
         /\ sys_modules' = st.sm
         /\ loaded_modules' = st.lm
         /\ result' = IF st.exc = "none" THEN "ok" ELSE st.exc
         /\ failed' = st.failed
         /\ loads' = st.loads
  /\ op' = "load"
  /\ pre' = [lm |-> loaded_modules, op |-> op, result |-> result, changed |-> changed]
  /\ changed' = {}
  /\ lookup' = NoLookup
  /\ length' = NoLength
  /\ UNCHANGED <<fs, python, scan_order, constructed, instantiate, raise_exceptions,
                 plugin_dirs, additional_plugins, arg_dirs, callback_calls, changes>>

Load == \E path \in Paths \cup {RelA} : CallLoadPlugin(path)

NextLoad == Write \/ Delete \/ Build \/ Reload \/ Load

SpecLoad == InitLookup /\ [][NextLoad]_vars

\* The load of f by the last operation failed: it raised, or f is not an
\* absolute path.
FailedLoad(f) ==
  /\ f \in loads
  /\ \/ ~IsAbsolute(f)
     \/ \E w \in {"import", "init"} : <<f, w>> \in failed

\* (C16) A load that fails leaves the units as they were, in either error
\* mode: a failed _load_plugin(f) changes nothing of loaded_modules, and
\* after a reload() in which the load of f failed, f has the unit it had
\* before - same members, same md5 - or none as before.
C16_FailedLoadKeepsUnits ==
  /\ op = "load" => \A f \in loads : FailedLoad(f) => loaded_modules = pre.lm
  /\ op = "reload" =>
       \A f \in loads :
         FailedLoad(f) =>
           /\ (f \in DOMAIN loaded_modules) <=> (f \in DOMAIN pre.lm)
           /\ f \in DOMAIN loaded_modules => loaded_modules[f] = pre.lm[f]

\* C16's case: _load_plugin failed on a path whose file was overwritten
\* since its unit was made, and the unit still has its old md5.
C16_Witness ==
  /\ op = "load"
  /\ \E f \in loads \cap DOMAIN loaded_modules :
       /\ FailedLoad(f)
       /\ File(f) # Absent
       /\ loaded_modules[f].md5 # Md5(File(f))

\* When the last pass started f had a unit, and the file of f has the
\* contents whose md5 the unit stored.
Unchanged(f) ==
  /\ f \in Candidates
  /\ f \in DOMAIN pre.lm
  /\ Md5(File(f)) = pre.lm[f].md5

\* (C17) reload() does not touch a candidate that has a unit and whose md5
\* is the stored one: it does not call _load_plugin for it, and its unit -
\* member objects and md5 - is the one it had, whatever the pass does with
\* the other files and however it ends.
C17_UnchangedUntouched ==
  op = "reload" =>
    \A f \in Paths :
      Unchanged(f) =>
        /\ f \notin loads
        /\ f \in DOMAIN loaded_modules
        /\ loaded_modules[f] = pre.lm[f]

\* C17's case: a reload() that loaded an edited file again and kept the
\* unit of an unchanged file whose module has the same name.
C17_Witness ==
  /\ op = "reload"
  /\ \E f, g \in Paths :
       /\ Unchanged(f)
       /\ loaded_modules[f] = pre.lm[f]
       /\ g \in loads \cap pre.changed
       /\ g # f
       /\ ModuleName(g) = ModuleName(f)

(***************************************************************************)
(* SpecRace: another process overwrites a plugin file while a pass is     *)
(* between the execution of the file and the _md5sum of its unit.         *)
(***************************************************************************)
RacedBuild ==
  \E inst \in BOOLEAN : \E p \in Paths : \E c \in Writable(p) :
    Construct(WatchedDirs, inst, FALSE, <<>>, Race(p, c))

RacedReload == \E p \in Paths : \E c \in Writable(p) : ReloadDuring(Race(p, c))

NextRace == Write \/ Delete \/ Build \/ Reload \/ RacedBuild \/ RacedReload

\* /p/a.py defines a plugin or nothing; the other files define one or are
\* not there.
RaceFiles ==
  {f \in [Paths -> {c.id : c \in Contents \cup {Absent}}] :
     /\ f[PA] \in {cFoo.id, cEmpty.id}
     /\ f[PB] \in {cFoo.id, Absent.id}
     /\ f[QA] \in {cFoo.id, Absent.id}}

InitRace == Init /\ fs \in RaceFiles

SpecRace == InitRace /\ [][NextRace]_vars

\* (C18) The md5 of every unit is the digest of the contents that were
\* executed to make the unit; hence a reload() during which no file is
\* written loads again every candidate whose file differs from the
\* contents its unit was made from.
C18_Md5OfExecuted ==
  /\ \A f \in DOMAIN loaded_modules :
       \E c \in Contents : c.id = loaded_modules[f].src /\ loaded_modules[f].md5 = Md5(c)
  /\ (op = "reload" /\ result = "ok" /\ changed = {}) =>
       \A f \in Candidates \cap DOMAIN pre.lm :
         File(f).id # pre.lm[f].src => f \in loads

\* (C19) After a construction or a reload() that returned, every key of
\* loaded_modules is an absolute path among the candidate files of that
\* pass, and every unit has at least one member.
C19_KeysAreCandidates ==
  (AfterPass /\ result = "ok") =>
    \A f \in DOMAIN loaded_modules :
      /\ f \in Candidates
      /\ IsAbsolute(f)
      /\ loaded_modules[f].plugins # <<>>

\* C19's case: a reload() that returned after the file of a unit was
\* deleted, the other units staying.
C19_Witness ==
  /\ op = "reload"
  /\ result = "ok"
  /\ loaded_modules # EmptyMap
  /\ \E f \in DOMAIN pre.lm : File(f) = Absent /\ f \notin DOMAIN loaded_modules

====
